---- MODULE Spec2Model ----
(***************************************************************************)
(* Model of the flowhouse web frontend (package frontend): translation of  *)
(* a query request into one aggregate SQL statement (fieldsToQuery and its *)
(* field resolvers), the query handler around it (QueryHandler,            *)
(* processQuery), the pivoting of result rows into a keyed series, and the *)
(* dictionary-values endpoint (GetDictValues).                             *)
(*                                                                         *)
(* Text that the code inspects character by character (field names, path   *)
(* segments, column aliases) is a sequence of one-character strings; text  *)
(* that the code only copies (SQL fragments, filter values, dictionary     *)
(* names) is a string.  Str turns the former into the latter.              *)
(***************************************************************************)
EXTENDS Integers, Sequences, FiniteSets, TLC

\* ------------------------------------------------------------------ bounds
MaxTailLen == 6      \* length of the generated tails of resolver inputs
MaxBreakdown == 2    \* breakdown fields in a request
MaxFilterKeys == 1   \* filter parameters in a request
MaxValues == 2       \* values of one filter parameter
MaxDictValues == 3   \* values the dictionary backend returns
MaxRows == 2         \* rows scanned in one result

\* ------------------------------------------------------- text primitives
RECURSIVE Str(_)
\* the string made of the characters of cs
Str(cs) ==
    IF cs = <<>> THEN ""
    ELSE IF Len(cs) = 1 THEN cs[1]
    ELSE LET half == Len(cs) \div 2
         IN  Str(SubSeq(cs, 1, half)) \o Str(SubSeq(cs, half + 1, Len(cs)))

RECURSIVE Join(_, _)
\* strings.Join over a sequence of strings
Join(elems, sep) ==
    IF elems = <<>> THEN ""
    ELSE IF Len(elems) = 1 THEN elems[1]
    ELSE elems[1] \o sep \o Join(Tail(elems), sep)

Drop(cs, n) == SubSeq(cs, n + 1, Len(cs))

\* strings.HasPrefix
HasPrefix(cs, prefix) ==
    /\ Len(cs) >= Len(prefix)
    /\ SubSeq(cs, 1, Len(prefix)) = prefix

Min(S) == CHOOSE x \in S : \A y \in S : x <= y

RECURSIVE SplitSepFrom(_, _)
SplitSepFrom(cs, i) ==
    LET hits == {j \in i..(Len(cs) - 1) : cs[j] = "_" /\ cs[j + 1] = "_"}
    IN  IF hits = {} THEN <<SubSeq(cs, i, Len(cs))>>
        ELSE <<SubSeq(cs, i, Min(hits) - 1)>> \o SplitSepFrom(cs, Min(hits) + 2)

\* strings.Split(s, "__"): the parts between successive occurrences of the
\* separator, each occurrence being the leftmost one after the previous
SplitSep(cs) == SplitSepFrom(cs, 1)

RECURSIVE SplitSlashFrom(_, _)
SplitSlashFrom(cs, i) ==
    LET hits == {j \in i..Len(cs) : cs[j] = "/"}
    IN  IF hits = {} THEN <<SubSeq(cs, i, Len(cs))>>
        ELSE <<SubSeq(cs, i, Min(hits) - 1)>> \o SplitSlashFrom(cs, Min(hits) + 1)

\* strings.Split(s, "/")
SplitSlash(cs) == SplitSlashFrom(cs, 1)

\* strings.Contains(s, "__")
ContainsSep(cs) == \E i \in 1..(Len(cs) - 1) : cs[i] = "_" /\ cs[i + 1] = "_"

RECURSIVE Sprintf(_, _)
\* fmt.Sprintf for a format given as its pieces, "%s" being the verb: a verb
\* without an operand prints %!s(MISSING), operands left over are reported
\* in a trailing %!(EXTRA ...)
Sprintf(format, params) ==
    IF format = <<>>
    THEN IF params = <<>> THEN ""
         ELSE "%!(EXTRA "
              \o Join([i \in 1..Len(params) |-> "string=" \o params[i]], ", ")
              \o ")"
    ELSE IF Head(format) = "%s"
         THEN IF params = <<>>
              THEN "%!s(MISSING)" \o Sprintf(Tail(format), <<>>)
              ELSE Head(params) \o Sprintf(Tail(format), Tail(params))
         ELSE Head(format) \o Sprintf(Tail(format), params)

\* -------------------------------------------------------- schema catalog
src_asn == <<"s", "r", "c", "_", "a", "s", "n">>
dst_asn == <<"d", "s", "t", "_", "a", "s", "n">>
src_ip_addr == <<"s", "r", "c", "_", "i", "p", "_", "a", "d", "d", "r">>
src_ip_pfx == <<"s", "r", "c", "_", "i", "p", "_", "p", "f", "x">>
dst_ip_pfx == <<"d", "s", "t", "_", "i", "p", "_", "p", "f", "x">>

fields == <<
    [Name |-> <<"a", "g", "e", "n", "t">>,
     ShortLabel |-> <<"A", ".">>],
    [Name |-> <<"i", "n", "t", "_", "i", "n">>,
     ShortLabel |-> <<"I", "n", "t", ".", "I", "n">>],
    [Name |-> <<"i", "n", "t", "_", "o", "u", "t">>,
     ShortLabel |-> <<"I", "n", "t", ".", "O", "u", "t">>],
    [Name |-> src_ip_addr,
     ShortLabel |-> <<"S", "r", "c", ".", "I", "P">>],
    [Name |-> src_ip_pfx,
     ShortLabel |-> <<"S", "r", "c", ".", "I", "P", ".", "P", "f", "x">>],
    [Name |-> <<"d", "s", "t", "_", "i", "p", "_", "a", "d", "d", "r">>,
     ShortLabel |-> <<"D", "s", "t", ".", "I", "P">>],
    [Name |-> dst_ip_pfx,
     ShortLabel |-> <<"D", "s", "t", ".", "I", "P", ".", "P", "f", "x">>],
    [Name |-> src_asn,
     ShortLabel |-> <<"S", "r", "c", ".", "A", "S">>],
    [Name |-> dst_asn,
     ShortLabel |-> <<"D", "s", "t", ".", "A", "S">>],
    [Name |-> <<"i", "p", "_", "p", "r", "o", "t", "o", "c", "o", "l">>,
     ShortLabel |-> <<"I", "P", ".", "P", "r", "o", "t", "o">>],
    [Name |-> <<"s", "r", "c", "_", "p", "o", "r", "t">>,
     ShortLabel |-> <<"S", "r", "c", ".", "P", "o", "r", "t">>],
    [Name |-> <<"d", "s", "t", "_", "p", "o", "r", "t">>,
     ShortLabel |-> <<"D", "s", "t", ".", "P", "o", "r", "t">>] >>

\* The dictionary bindings the frontend is constructed with: one with the
\* field itself as key, one with a composite key, and a second binding of
\* an already bound field (the first match is the one used).
dictCfgs == <<
    [Field |-> src_asn, Dict |-> "asns",
     Expr |-> <<"toUInt64(", "%s", ")">>, Keys |-> <<>>],
    [Field |-> src_ip_addr, Dict |-> "prefixes",
     Expr |-> <<"tuple(", "%s", ", ", "%s", ")">>,
     Keys |-> <<"agent", "src_ip_addr">>],
    [Field |-> src_asn, Dict |-> "asns_old",
     Expr |-> <<"%s">>, Keys |-> <<>>] >>

NoDict == [Field |-> <<>>, Dict |-> "", Expr |-> <<>>, Keys |-> <<>>]

\* Dicts.getDict: the first binding of the field; found is FALSE for nil
getDict(field) ==
    LET hits == {i \in 1..Len(dictCfgs) : dictCfgs[i].Field = field}
    IN  IF hits = {} THEN [found |-> FALSE, d |-> NoDict]
        ELSE [found |-> TRUE,
              d |-> dictCfgs[CHOOSE i \in hits : \A j \in hits : i <= j]]

\* -------------------------------------------------------- field resolver
srcPfxExpr ==
    <<"c", "o", "n", "c", "a", "t", "(", "I", "P", "v", "6", "N", "u", "m",
      "T", "o", "S", "t", "r", "i", "n", "g", "(", "s", "r", "c", "_", "i",
      "p", "_", "p", "f", "x", "_", "a", "d", "d", "r", ")", ",", " ", "'",
      "/", "'", ",", " ", "t", "o", "S", "t", "r", "i", "n", "g", "(", "s",
      "r", "c", "_", "i", "p", "_", "p", "f", "x", "_", "l", "e", "n", ")",
      ")">>
dstPfxExpr ==
    <<"c", "o", "n", "c", "a", "t", "(", "I", "P", "v", "6", "N", "u", "m",
      "T", "o", "S", "t", "r", "i", "n", "g", "(", "d", "s", "t", "_", "i",
      "p", "_", "p", "f", "x", "_", "a", "d", "d", "r", ")", ",", " ", "'",
      "/", "'", ",", " ", "t", "o", "S", "t", "r", "i", "n", "g", "(", "d",
      "s", "t", "_", "i", "p", "_", "p", "f", "x", "_", "l", "e", "n", ")",
      ")">>

resolveVirtualField(f) ==
    IF f = src_ip_pfx THEN srcPfxExpr
    ELSE IF f = dst_ip_pfx THEN dstPfxExpr
    ELSE f

parseFieldName(name) ==
    LET parts == SplitSep(name)
    IN  IF Len(parts) < 2
        THEN [flowsFieldName |-> parts[1], relatedFieldsName |-> <<>>]
        ELSE [flowsFieldName |-> parts[1], relatedFieldsName |-> parts[2]]

\* err is <<>> for a nil error and <<message>> otherwise
resolveDictIfNecessary(fieldName) ==
    LET p == parseFieldName(fieldName)
        g == getDict(p.flowsFieldName)
        params == IF Len(g.d.Keys) = 0 THEN <<Str(p.flowsFieldName)>>
                  ELSE g.d.Keys
    IN  IF p.relatedFieldsName = <<>>
        THEN [val |-> Str(p.flowsFieldName), err |-> <<>>]
        ELSE IF ~g.found
        THEN [val |-> "",
              err |-> <<"Dict for field " \o Str(fieldName) \o " not found">>]
        ELSE [val |-> "dictGet('" \o g.d.Dict \o "', '"
                      \o Str(p.relatedFieldsName) \o "', "
                      \o Sprintf(g.d.Expr, params) \o ")",
              err |-> <<>>]

\* ---------------------------------------------------------- query builder
breakdown == <<"b", "r", "e", "a", "k", "d", "o", "w", "n">>
time_start == <<"t", "i", "m", "e", "_", "s", "t", "a", "r", "t">>
time_end == <<"t", "i", "m", "e", "_", "e", "n", "d">>
filter_field == <<"f", "i", "l", "t", "e", "r", "_", "f", "i", "e", "l", "d">>

\* url.Values: a function from the parameter names present to their values,
\* in order; a name that is present has at least one value
Get(values, key) == IF key \in DOMAIN values THEN values[key] ELSE <<>>

\* The wall-clock readings of the strings that time.Parse accepts under
\* time.RFC3339 once ":00+02:00" is appended: the days from 1970-01-01 to the
\* date, the hour and the minute
WallClock(v) ==
    CASE v = "2024-01-01T10:00" -> <<[days |-> 19723, hh |-> 10, mm |-> 0]>>
      [] v = "2024-01-01T11:00" -> <<[days |-> 19723, hh |-> 11, mm |-> 0]>>
      [] v = "2024-01-01T01:30" -> <<[days |-> 19723, hh |-> 1, mm |-> 30]>>
      [] OTHER -> <<>>

\* err is the chain of messages of the wrapped error, outermost first
timeFieldToTimestamp(v) ==
    LET t == WallClock(v)
    IN  IF t = <<>>
        THEN [ts |-> 0,
              err |-> <<"Unable to parse \"" \o v \o ":00+02:00\"",
                        "parsing time">>]
        ELSE [ts |-> ((t[1].days * 24 + t[1].hh) * 60 + t[1].mm) * 60
                     - 2 * 3600,
              err |-> <<>>]

\* validateFields with the times looked at before the breakdown list
validateFields_TimesFirst(req) ==
    IF time_start \notin DOMAIN req THEN <<"No start time given">>
    ELSE IF time_end \notin DOMAIN req THEN <<"No end time given">>
    ELSE IF breakdown \notin DOMAIN req THEN <<"No breakdown set">>
    ELSE IF timeFieldToTimestamp(req[time_start][1]).err # <<>>
    THEN <<"Unable to parse time">>
         \o timeFieldToTimestamp(req[time_start][1]).err
    ELSE IF timeFieldToTimestamp(req[time_end][1]).err # <<>>
    THEN <<"Unable to parse time">>
         \o timeFieldToTimestamp(req[time_end][1]).err
    ELSE <<>>

\* lines 445-465: the checks made before anything is assembled
validateFields(req) ==
    IF breakdown \notin DOMAIN req THEN <<"No breakdown set">>
    ELSE IF time_start \notin DOMAIN req THEN <<"No start time given">>
    ELSE IF time_end \notin DOMAIN req THEN <<"No end time given">>
    ELSE IF timeFieldToTimestamp(req[time_start][1]).err # <<>>
    THEN <<"Unable to parse time">>
         \o timeFieldToTimestamp(req[time_start][1]).err
    ELSE IF timeFieldToTimestamp(req[time_end][1]).err # <<>>
    THEN <<"Unable to parse time">>
         \o timeFieldToTimestamp(req[time_end][1]).err
    ELSE <<>>

Aggregate == "sum(size * samplerate) * 8 / 10"

RECURSIVE selectBreakdown(_)
\* lines 469-478: one entry per breakdown field that resolves
selectBreakdown(names) ==
    IF names = <<>> THEN <<>>
    ELSE LET r == resolveDictIfNecessary(resolveVirtualField(Head(names)))
         IN  (IF r.err # <<>> THEN <<>>
              ELSE <<r.val \o " as " \o Str(Head(names))>>)
             \o selectBreakdown(Tail(names))

\* selectFields with the aggregate appended before the breakdown fields
selectFields_AggregateFirst(req) ==
    <<"timestamp as t">> \o <<Aggregate>>
                         \o selectBreakdown(req[breakdown])

\* lines 467-479
selectFields(req) ==
    <<"timestamp as t">> \o selectBreakdown(req[breakdown])
                         \o <<Aggregate>>

Quoted(values) == [i \in 1..Len(values) |-> "'" \o values[i] \o "'"]

\* lines 484-504: the body of the loop over the request's parameters, for
\* one parameter: the conditions it adds
condition(req, key) ==
    LET fieldName == resolveVirtualField(key)
        r == resolveDictIfNecessary(fieldName)
        values == Get(req, fieldName)
    IN  IF \/ key = breakdown
           \/ key = time_start
           \/ key = time_end
           \/ HasPrefix(key, filter_field)
        THEN <<>>
        ELSE IF r.err # <<>> THEN <<>>
        ELSE IF Len(values) = 1
        THEN <<r.val \o " = '" \o values[1] \o "'">>
        ELSE <<r.val \o " IN (" \o Join(Quoted(values), ", ") \o ")">>

RECURSIVE filterConditions(_, _)
filterConditions(req, order) ==
    IF order = <<>> THEN <<>>
    ELSE condition(req, Head(order))
         \o filterConditions(req, Tail(order))

\* lines 481-505; order is the order in which the map is ranged over
whereConditions(req, order) ==
    <<"t BETWEEN toDateTime("
      \o ToString(timeFieldToTimestamp(req[time_start][1]).ts)
      \o ") AND toDateTime("
      \o ToString(timeFieldToTimestamp(req[time_end][1]).ts) \o ")">>
    \o filterConditions(req, order)

\* lines 507-514
groupByFields(req) ==
    <<"t">> \o [i \in 1..Len(Get(req, breakdown)) |->
                    Str(req[breakdown][i])]

\* ClickHouseGateway.GetDatabaseName: the configured database
GetDatabaseName == "flowhouse"

\* lines 516-517
statement(selectFieldList, conditions, groupBy) ==
    "SELECT " \o Join(selectFieldList, ", ")
    \o " FROM " \o GetDatabaseName \o ".flows"
    \o " WHERE " \o Join(conditions, " AND ")
    \o " GROUP BY " \o Join(groupBy, ", ")
    \o " ORDER BY t"

NoLists == [selectFieldList |-> <<>>, conditions |-> <<>>, groupBy |-> <<>>]

fieldsToQuery(req, order) ==
    LET err == validateFields(req)
        l == [selectFieldList |-> selectFields(req),
              conditions |-> whereConditions(req, order),
              groupBy |-> groupByFields(req)]
    IN  IF err # <<>>
        THEN [query |-> "", err |-> err, lists |-> NoLists]
        ELSE [query |-> statement(l.selectFieldList, l.conditions, l.groupBy),
              err |-> <<>>, lists |-> l]

\* --------------------------------------------------------- result pivoter
LowerCase ==
    <<"a", "b", "c", "d", "e", "f", "g", "h", "i", "j", "k", "l", "m",
      "n", "o", "p", "q", "r", "s", "t", "u", "v", "w", "x", "y",
      "z">>
UpperCase ==
    <<"A", "B", "C", "D", "E", "F", "G", "H", "I", "J", "K", "L", "M",
      "N", "O", "P", "Q", "R", "S", "T", "U", "V", "W", "X", "Y",
      "Z">>
Digits == {"0", "1", "2", "3", "4", "5", "6", "7", "8", "9"}

\* unicode.ToTitle, on the characters above
ToTitle(c) ==
    IF \E i \in 1..26 : LowerCase[i] = c
    THEN UpperCase[CHOOSE i \in 1..26 : LowerCase[i] = c]
    ELSE c

\* isSeparator of package strings: ASCII letters, digits and the underscore
\* do not separate words, every other ASCII character does
isSeparator(c) ==
    ~ \/ \E i \in 1..26 : LowerCase[i] = c \/ UpperCase[i] = c
      \/ c \in Digits
      \/ c = "_"

\* strings.Title: the first letter of every word in title case
Title(cs) ==
    [i \in 1..Len(cs) |->
        IF i = 1 \/ isSeparator(cs[i - 1]) THEN ToTitle(cs[i]) ELSE cs[i]]

\* lines 429-434: the short label of the first catalog field whose name the
\* label starts with replaces that name
abbreviate(label) ==
    LET hits == {i \in 1..Len(fields) : HasPrefix(label, fields[i].Name)}
        f == fields[CHOOSE i \in hits : \A j \in hits : i <= j]
    IN  IF hits = {} THEN label
        ELSE f.ShortLabel \o Drop(label, Len(f.Name))

getReadableLabel(label) ==
    LET short == abbreviate(label)
        parts == SplitSep(short)
    IN  IF ~ContainsSep(short) THEN Str(short)
        ELSE Str(parts[1]) \o "." \o Str(Title(parts[2]))

HexDigits == <<"0", "1", "2", "3", "4", "5", "6", "7", "8", "9",
               "a", "b", "c", "d", "e", "f">>

RECURSIVE Hex(_)
Hex(n) == IF n < 16 THEN HexDigits[n + 1]
          ELSE Hex(n \div 16) \o HexDigits[(n % 16) + 1]

V4InV6Prefix == <<0, 0, 0, 0, 0, 0, 0, 0, 0, 0, 255, 255>>

Dotted(b) == Join([i \in 1..4 |-> ToString(b[i])], ".")

\* the text of a 16-byte address that is not an IPv4 one: eight groups in
\* hexadecimal, the longest run of two or more zero groups (the leftmost of
\* the longest) written as "::"
V6Text(b) ==
    LET g == [i \in 1..8 |-> b[2 * i - 1] * 256 + b[2 * i]]
        runs == {r \in (1..8) \X (1..8) :
                    /\ r[1] < r[2]
                    /\ \A i \in r[1]..r[2] : g[i] = 0}
        best == CHOOSE r \in runs :
                    \A o \in runs :
                        \/ o[2] - o[1] < r[2] - r[1]
                        \/ o[2] - o[1] = r[2] - r[1] /\ r[1] <= o[1]
        hex(from, to) == Join([i \in 1..(to - from + 1) |->
                                   Hex(g[from + i - 1])], ":")
    IN  IF runs = {} THEN hex(1, 8)
        ELSE hex(1, best[1] - 1) \o "::" \o hex(best[2] + 1, 8)

\* net.IP.String
IPString(b) ==
    IF Len(b) = 0 THEN "<nil>"
    ELSE IF Len(b) = 4 THEN Dotted(b)
    ELSE IF Len(b) = 16 /\ SubSeq(b, 1, 12) = V4InV6Prefix
    THEN Dotted(SubSeq(b, 13, 16))
    ELSE IF Len(b) = 16 THEN V6Text(b)
    ELSE "?" \o Join([i \in 1..Len(b) |->
                         HexDigits[(b[i] \div 16) + 1]
                         \o HexDigits[(b[i] % 16) + 1]], "")

\* A scanned cell is [type, v]: v is a number for the integer types, a
\* sequence of characters for string, a sequence of bytes for net.IP.
UintTypes == {"uint8", "uint16", "uint32", "uint64"}
KeyTypes == UintTypes \cup {"string", "net.IP"}

\* the text the %d and %s verbs of lines 405-415 print for a cell
cellText(cell) ==
    IF cell.type \in UintTypes THEN ToString(cell.v)
    ELSE IF cell.type = "string" THEN Str(cell.v)
    ELSE IPString(cell.v)

\* keyComponent without the cases for the unsigned integers
keyComponent_NoUints(column, cell) ==
    IF cell.type \in {"string", "net.IP"}
    THEN <<getReadableLabel(column) \o "=" \o cellText(cell)>>
    ELSE <<>>

\* lines 401-416: the key components one column adds; a cell of a type the
\* switch has no case for adds none
keyComponent(column, cell) ==
    IF cell.type \in KeyTypes
    THEN <<getReadableLabel(column) \o "=" \o cellText(cell)>>
    ELSE <<>>

RECURSIVE keyComponents(_, _, _)
\* lines 399-417: the loop over the columns from i to the last but one
keyComponents(columns, row, i) ==
    IF i > Len(columns) - 1 THEN <<>>
    ELSE keyComponent(columns[i], row[i])
         \o keyComponents(columns, row, i + 1)

compositeKey(columns, row) == Join(keyComponents(columns, row, 2), ";")

\* uint64(value) of a float64 held in tenths: the fraction is dropped
Uint64OfFloat(tenths) == tenths \div 10

NoSeries == [t \in {} |-> 0]

\* result.add: the value of (timestamp, key) is set, replacing an earlier one
add(res, ts, key, value) ==
    (ts :> ((key :> value) @@ (IF ts \in DOMAIN res THEN res[ts]
                                ELSE NoSeries)))
    @@ res

\* lines 390-422: one iteration of the loop over the rows
addRow(res, columns, row) ==
    add(res, row[1].v, compositeKey(columns, row),
        Uint64OfFloat(row[Len(columns)].v))

RECURSIVE addRows(_, _, _)
\* lines 388-425
addRows(res, columns, rows) ==
    IF rows = <<>> THEN res
    ELSE addRows(addRow(res, columns, Head(rows)), columns, Tail(rows))

\* ------------------------------------------------------ dictionary values
CharOrder == <<"/", "A", "B", "_", "a", "b">>
Ord(ch) == CHOOSE i \in 1..Len(CharOrder) : CharOrder[i] = ch

RECURSIVE Less(_, _)
\* the < of Go strings: byte-wise lexicographic
Less(x, y) ==
    IF y = <<>> THEN FALSE
    ELSE IF x = <<>> THEN TRUE
    ELSE IF Ord(Head(x)) # Ord(Head(y)) THEN Ord(Head(x)) < Ord(Head(y))
    ELSE Less(Tail(x), Tail(y))

RECURSIVE insertSorted(_, _)
insertSorted(sorted, x) ==
    IF sorted = <<>> THEN <<x>>
    ELSE IF Less(x, Head(sorted)) THEN <<x>> \o sorted
    ELSE <<Head(sorted)>> \o insertSorted(Tail(sorted), x)

RECURSIVE sortSlice(_)
\* sort.Slice under Less: the elements in ascending order
sortSlice(xs) ==
    IF xs = <<>> THEN <<>>
    ELSE insertSorted(sortSlice(Tail(xs)), Head(xs))

parseDictValueRequest(input) ==
    LET parts == SplitSep(input)
    IN  IF Len(parts) # 2
        THEN [fieldName |-> <<>>, column |-> <<>>, err |-> <<"Invalid format">>]
        ELSE [fieldName |-> parts[1], column |-> parts[2], err |-> <<>>]

getFieldsDictName(fieldName) ==
    LET g == getDict(fieldName)
    IN  IF g.found THEN g.d.Dict ELSE ""

\* json.Marshal of a slice of strings made of letters
jsonMarshal(xs) ==
    "[" \o Join([i \in 1..Len(xs) |-> "\"" \o Str(xs[i]) \o "\""], ",") \o "]"

NotCalled == [called |-> FALSE, values |-> <<>>, err |-> <<>>]

\* lines 650-693; backend is what ClickHouseGateway.GetDictValues returns
\* when it is called
GetDictValues(path, backend) ==
    LET parts == SplitSlash(path)
        p == parseDictValueRequest(parts[3])
        dict == getFieldsDictName(p.fieldName)
        res == sortSlice(SelectSeq(backend.values, LAMBDA v : v # <<>>))
        bad == [status |-> 400, body |-> "", res |-> <<>>, backend |-> NotCalled]
    IN  IF Len(parts) # 3 THEN bad
        ELSE IF p.err # <<>> THEN bad
        ELSE IF dict = "" THEN bad
        ELSE IF backend.err # <<>>
        THEN [status |-> 500, body |-> "", res |-> <<>>, backend |-> backend]
        ELSE [status |-> 200, body |-> jsonMarshal(res), res |-> res,
              backend |-> backend]

\* ------------------------------------------------------------------ state
VARIABLES
    \* the resolver called on its own
    rpc,        \* "idle" | "done"
    rName,      \* the field name passed to resolveDictIfNecessary
    rOut,       \* what it returned
    \* the query endpoint, one request at a time
    pc,         \* "idle" | "waiting" (inside chgw.Query) | "done"
    request,    \* r.URL.Query() of the request being handled
    built,      \* what fieldsToQuery returned, with the lists it assembled
    err,        \* the error QueryHandler logged, <<>> if none
    status,     \* status code of the response, 0 while there is none
    body,       \* response body
    dbCall,     \* chgw.Query: "none" | "pending" | "answered" | "failed"
    dbQueries,  \* statements handed to the storage engine by this request
    cancelled,  \* the request's context has been cancelled
    series,     \* the result built from the rows
    \* the dictionary-values endpoint
    dpc,        \* "idle" | "done"
    dPath,      \* r.URL.Path
    dOut,       \* status, body, the slice marshalled, the backend's answer
    \* the loop of processQuery over the rows, row by row
    ppc,        \* "idle" | "rows"
    columns,    \* rows.Columns()
    scanned,    \* the rows scanned so far
    res         \* the result so far

rvars == <<rpc, rName, rOut>>
qvars == <<pc, request, built, err, status, body, dbCall, dbQueries,
           cancelled, series>>
dvars == <<dpc, dPath, dOut>>
pvars == <<ppc, columns, scanned, res>>
vars == <<rvars, qvars, dvars, pvars>>

NotBuilt == [query |-> "", err |-> <<>>, lists |-> NoLists]
NoRequest == [k \in {} |-> <<>>]
NoAnswer == [status |-> 0, body |-> "", res |-> <<>>, backend |-> NotCalled]

Init ==
    /\ rpc = "idle" /\ rName = <<>> /\ rOut = [val |-> "", err |-> <<>>]
    /\ pc = "idle" /\ request = NoRequest /\ built = NotBuilt
    /\ err = <<>> /\ status = 0 /\ body = ""
    /\ dbCall = "none" /\ dbQueries = <<>> /\ cancelled = FALSE
    /\ series = NoSeries
    /\ dpc = "idle" /\ dPath = <<>> /\ dOut = NoAnswer
    /\ ppc = "idle" /\ columns = <<>> /\ scanned = <<>> /\ res = NoSeries

\* ---------------------------------------------------- resolver, on its own
RECURSIVE Tails(_)
Tails(n) ==
    IF n = 0 THEN {<<>>}
    ELSE LET shorter == Tails(n - 1)
         IN  shorter \cup {Append(t, ch) : t \in shorter, ch \in {"_", "n"}}

ResolverBases == {src_asn, src_ip_addr, dst_asn, <<>>}
ResolverNames == {b \o t : b \in ResolverBases, t \in Tails(MaxTailLen)}

Resolve(n) ==
    /\ rpc = "idle"
    /\ rpc' = "done"
    /\ rName' = n
    /\ rOut' = resolveDictIfNecessary(n)
    /\ UNCHANGED <<qvars, dvars, pvars>>

ResolveReturn ==
    /\ rpc = "done"
    /\ rpc' = "idle" /\ rName' = <<>> /\ rOut' = [val |-> "", err |-> <<>>]
    /\ UNCHANGED <<qvars, dvars, pvars>>

NextResolve ==
    \/ /\ rpc = "idle"
       /\ \E n \in ResolverNames : Resolve(n)
    \/ ResolveReturn

SpecResolve == Init /\ [][NextResolve]_vars

\* ------------------------------------------------------- the query endpoint
src_asn__name == <<"s", "r", "c", "_", "a", "s", "n", "_", "_", "n", "a", "m", "e">>
foo__bar == <<"f", "o", "o", "_", "_", "b", "a", "r">>
filter_field_0 == <<"f", "i", "l", "t", "e", "r", "_", "f", "i", "e", "l", "d", "_", "0">>

BreakdownNames == {src_asn, src_asn__name, foo__bar, src_ip_pfx}
TimeStrings == {"2024-01-01T10:00", "2024-01-01T11:00", "yesterday"}
FilterKeys == {dst_asn, src_asn__name, src_ip_pfx, foo__bar, filter_field_0}
\* the values of a filter parameter: the first n of an alternating list (the
\* code only quotes them)
FilterValues(n) == [i \in 1..n |-> IF i % 2 = 1 THEN "65001" ELSE "65002"]

SeqsUpTo(S, n) == UNION {[1..m -> S] : m \in 1..n}

\* one optional parameter: absent, or present with the values vs
Param(key, vs) == {NoRequest} \cup {key :> v : v \in vs}

FilterParams ==
    LET lists == {FilterValues(n) : n \in 1..MaxValues}
        keySets == {K \in SUBSET FilterKeys : Cardinality(K) <= MaxFilterKeys}
    IN  UNION {{[k \in K |-> l] : l \in lists} : K \in keySets}

Requests ==
    {b @@ s @@ e @@ f :
        b \in Param(breakdown,
                    {l \in SeqsUpTo(BreakdownNames, MaxBreakdown) :
                        \A i, j \in 1..Len(l) : l[i] = l[j] => i = j}),
        s \in Param(time_start, {<<t>> : t \in TimeStrings}),
        e \in Param(time_end, {<<t>> : t \in TimeStrings}),
        f \in FilterParams}

RECURSIVE Orders(_)
\* every order in which the elements of a set can be enumerated
Orders(S) ==
    IF S = {} THEN {<<>>}
    ELSE UNION {{<<x>> \o o : o \in Orders(S \ {x})} : x \in S}

\* The orders in which ranging over the map can yield its keys.  The
\* iterations for the keys that line 484 skips change nothing, so only the
\* orders that yield those keys first, in one order, are enumerated.
MapOrders(req) ==
    LET skipped == {k \in DOMAIN req :
                       \/ k \in {breakdown, time_start, time_end}
                       \/ HasPrefix(k, filter_field)}
        first == CHOOSE o \in Orders(skipped) : TRUE
    IN  {first \o o : o \in Orders(DOMAIN req \ skipped)}

t_column == <<"t">>
aggregate_column == <<"s", "u", "m">>

RECURSIVE resolvedNames(_)
resolvedNames(names) ==
    IF names = <<>> THEN <<>>
    ELSE (IF resolveDictIfNecessary(resolveVirtualField(Head(names))).err
             = <<>>
          THEN <<Head(names)>> ELSE <<>>)
         \o resolvedNames(Tail(names))

\* the columns of the rows the storage engine returns for the statement
\* built from req: the bucket, the aliases selected, the aggregate
resultColumns(req) ==
    <<t_column>> \o resolvedNames(req[breakdown]) \o <<aggregate_column>>

\* the row sets the storage engine answers with here: none, or one row
RowSets(cols) ==
    {<<>>,
     <<[i \in 1..Len(cols) |->
          IF i = 1 THEN [type |-> "time.Time", v |-> 100]
          ELSE IF i = Len(cols) THEN [type |-> "float64", v |-> 105]
          ELSE [type |-> "uint32", v |-> 65001]]>>}

\* lines 341-378: QueryHandler up to the point where processQuery either has
\* returned or is inside chgw.Query
QueryHandler(r, order) ==
    /\ pc = "idle"
    /\ request' = r
    /\ cancelled' = FALSE
    /\ series' = NoSeries
    /\ body' = ""
    /\ IF DOMAIN r = {}
       THEN \* processQuery returns nil, nil; the nil result is an error
            /\ built' = NotBuilt
            /\ err' = <<"Query returned a nil result">>
            /\ status' = 500
            /\ dbCall' = "none" /\ dbQueries' = <<>>
            /\ pc' = "done"
       ELSE LET b == fieldsToQuery(r, order)
            IN  /\ built' = b
                /\ IF b.err # <<>>
                   THEN /\ err' = <<"Unable to process query",
                                    "Unable to generate SQL query">> \o b.err
                        /\ status' = 500
                        /\ dbCall' = "none" /\ dbQueries' = <<>>
                        /\ pc' = "done"
                   ELSE /\ err' = <<>>
                        /\ status' = 0
                        /\ dbCall' = "pending"
                        /\ dbQueries' = <<b.query>>
                        /\ pc' = "waiting"
    /\ UNCHANGED <<rvars, dvars, pvars>>

\* the client goes away or the request's deadline passes; nothing in the
\* handler reads r.Context()
Cancel ==
    /\ pc = "waiting"
    /\ ~cancelled
    /\ cancelled' = TRUE
    /\ UNCHANGED <<pc, request, built, err, status, body, dbCall, dbQueries,
                   series, rvars, dvars, pvars>>

\* lines 374-377: chgw.Query returns an error (the storage engine rejects the
\* statement, is unreachable, or the driver's read timeout passes)
QueryFails ==
    /\ pc = "waiting"
    /\ dbCall' = "failed"
    /\ err' = <<"Unable to process query", "Query failed">>
    /\ status' = 500
    /\ pc' = "done"
    /\ UNCHANGED <<request, built, body, dbQueries, cancelled, series,
                   rvars, dvars, pvars>>

Outcomes == {"ok", "columns failed", "scan failed", "csv failed"}

\* lines 374-425 and 349-360: chgw.Query returns rows; the rows are folded
\* into the result and the result is written as CSV
QueryAnswers(rows, outcome) ==
    /\ pc = "waiting"
    /\ dbCall' = "answered"
    /\ pc' = "done"
    /\ IF outcome = "columns failed"
       THEN /\ err' = <<"Unable to process query", "Unable to get columns">>
            /\ status' = 500 /\ UNCHANGED <<series, body>>
       ELSE IF outcome = "scan failed"
       THEN /\ err' = <<"Unable to process query", "Scan failed">>
            /\ status' = 500 /\ UNCHANGED <<series, body>>
       ELSE /\ series' = addRows(NoSeries, resultColumns(request), rows)
            /\ IF outcome = "csv failed"
               THEN /\ err' = <<"Unable to write CSV">>
                    /\ status' = 500 /\ UNCHANGED body
               ELSE /\ err' = <<>> /\ status' = 200 /\ body' = "csv"
    /\ UNCHANGED <<request, built, dbQueries, cancelled, rvars, dvars, pvars>>

\* the handler has returned; the next request can be taken
QueryHandlerReturn ==
    /\ pc = "done"
    /\ pc' = "idle" /\ request' = NoRequest /\ built' = NotBuilt
    /\ err' = <<>> /\ status' = 0 /\ body' = ""
    /\ dbCall' = "none" /\ dbQueries' = <<>> /\ cancelled' = FALSE
    /\ series' = NoSeries
    /\ UNCHANGED <<rvars, dvars, pvars>>

Next ==
    \/ /\ pc = "idle"
       /\ \E r \in Requests : \E order \in MapOrders(r) : QueryHandler(r, order)
    \/ Cancel
    \/ QueryFails
    \/ /\ pc = "waiting"
       /\ \E rows \in RowSets(resultColumns(request)) :
              \E outcome \in Outcomes : QueryAnswers(rows, outcome)
    \/ QueryHandlerReturn

Spec == Init /\ [][Next]_vars

\* ------------------------------------------- the dictionary-values endpoint
Slash == <<"/">>
dicts == <<"d", "i", "c", "t", "s">>

DictPaths ==
    {Slash \o dicts \o Slash \o src_asn__name,
     Slash \o dicts \o Slash \o src_asn \o <<"_", "_">>,
     Slash \o dicts \o Slash \o src_asn__name \o <<"_", "_", "a">>,
     Slash \o dicts \o Slash \o foo__bar,
     Slash \o dicts \o Slash \o src_asn,
     Slash \o dicts \o Slash \o src_asn__name \o Slash,
     Slash \o dicts,
     Slash \o src_asn__name}

DictValues == {<<>>, <<"a">>, <<"b">>, <<"a", "b">>, <<"B">>}

BackendAnswers ==
    {[called |-> TRUE, values |-> <<>>, err |-> <<"Query failed">>]}
    \cup {[called |-> TRUE, values |-> vs, err |-> <<>>] :
             vs \in {<<>>} \cup SeqsUpTo(DictValues, MaxDictValues)}

GetDictValuesHandler(path, backend) ==
    /\ dpc = "idle"
    /\ dpc' = "done"
    /\ dPath' = path
    /\ dOut' = GetDictValues(path, backend)
    /\ UNCHANGED <<rvars, qvars, pvars>>

GetDictValuesReturn ==
    /\ dpc = "done"
    /\ dpc' = "idle" /\ dPath' = <<>> /\ dOut' = NoAnswer
    /\ UNCHANGED <<rvars, qvars, pvars>>

NextDict ==
    \/ /\ dpc = "idle"
       /\ \E path \in DictPaths : \E backend \in BackendAnswers :
              GetDictValuesHandler(path, backend)
    \/ GetDictValuesReturn

SpecDict == Init /\ [][NextDict]_vars

\* ------------------------------------------------- the pivot, row by row
Cell(type, v) == [type |-> type, v |-> v]

IPv4 == <<10, 0, 0, 1>>
IPv4In16 == V4InV6Prefix \o IPv4
IPv6 == <<32, 1, 13, 184, 0, 0, 0, 0, 0, 0, 0, 0, 0, 0, 0, 1>>

\* the shapes of the row sets scanned here: the columns, and for each
\* breakdown column the cells the storage engine can return in it
ResultShapes ==
    {[columns |-> <<t_column, aggregate_column>>, cells |-> <<>>],
     [columns |-> <<t_column, src_asn, aggregate_column>>,
      cells |-> <<{Cell("uint32", 65001), Cell("uint32", 65002)}>>],
     [columns |-> <<t_column, src_asn__name, dst_asn, aggregate_column>>,
      cells |-> <<{Cell("string", <<"a">>), Cell("string", <<"b">>)},
                  {Cell("int32", 7), Cell("int32", 8)}>>],
     [columns |-> <<t_column, <<"x">>, <<"y">>, aggregate_column>>,
      cells |-> <<{Cell("string", <<"a", ";", "y", "=", "b">>),
                   Cell("string", <<"a">>)},
                  {Cell("string", <<"c">>),
                   Cell("string", <<"b", ";", "y", "=", "c">>)}>>],
     [columns |-> <<t_column, src_ip_addr, aggregate_column>>,
      cells |-> <<{Cell("net.IP", IPv4), Cell("net.IP", IPv4In16),
                   Cell("net.IP", IPv6)}>>],
     [columns |-> <<t_column, <<"i", "n", "t", "_", "i", "n">>,
                    aggregate_column>>,
      cells |-> <<{Cell("uint8", 6), Cell("uint16", 6), Cell("nil", 0)}>>]}

Timestamps == {100, 200}
Amounts == {105, 200}

RECURSIVE CellSeqs(_)
\* the sequences that take their i-th element from the i-th set
CellSeqs(sets) ==
    IF sets = <<>> THEN {<<>>}
    ELSE {<<cell>> \o cs : cell \in Head(sets), cs \in CellSeqs(Tail(sets))}

RowsOf(shape) ==
    {<<Cell("time.Time", ts)>> \o cs \o <<Cell("float64", a)>> :
        ts \in Timestamps, a \in Amounts, cs \in CellSeqs(shape.cells)}

ShapeOf(cols) == CHOOSE shape \in ResultShapes : shape.columns = cols

\* lines 380-388: the columns are read and the result is created
RowsColumns(shape) ==
    /\ ppc = "idle"
    /\ ppc' = "rows"
    /\ columns' = shape.columns
    /\ scanned' = <<>>
    /\ res' = NoSeries
    /\ UNCHANGED <<rvars, qvars, dvars>>

\* lines 389-423: one iteration of the loop
RowsNext(row) ==
    /\ ppc = "rows"
    /\ Len(scanned) < MaxRows
    /\ scanned' = Append(scanned, row)
    /\ res' = addRow(res, columns, row)
    /\ UNCHANGED <<ppc, columns, rvars, qvars, dvars>>

\* line 425: the loop is over and the result returned
RowsClose ==
    /\ ppc = "rows"
    /\ ppc' = "idle" /\ columns' = <<>> /\ scanned' = <<>> /\ res' = NoSeries
    /\ UNCHANGED <<rvars, qvars, dvars>>

NextPivot ==
    \/ /\ ppc = "idle"
       /\ \E shape \in ResultShapes : RowsColumns(shape)
    \/ /\ ppc = "rows"
       /\ \E row \in RowsOf(ShapeOf(columns)) : RowsNext(row)
    \/ RowsClose

SpecPivot == Init /\ [][NextPivot]_vars

\* ================================================================== claims
Built == pc \in {"waiting", "done"} /\ built.query # ""

Resolves(name) ==
    resolveDictIfNecessary(resolveVirtualField(name)).err = <<>>

Strs(names) == [i \in 1..Len(names) |-> Str(names[i])]

\* C1: when a breakdown field of a request fails resolution, fieldsToQuery
\* still returns a statement without error, and the names after t in GROUP BY
\* are exactly the aliases of the breakdown fields present in SELECT, in the
\* same order: the field is in neither list.
C1_UnresolvedFieldInNeitherList ==
    ( /\ pc \in {"waiting", "done"}
      /\ validateFields(request) = <<>>
      /\ \E i \in 1..Len(request[breakdown]) :
             ~Resolves(request[breakdown][i]) )
    => /\ built.err = <<>>
       /\ built.query # ""
       /\ Len(built.lists.selectFieldList)
              = Len(resolvedNames(request[breakdown])) + 2
       /\ Tail(built.lists.groupBy) = Strs(resolvedNames(request[breakdown]))

\* C2: a request with an empty query string is answered with status 200 and
\* no body, and no SQL is built or executed for it.
C2_EmptyQueryIsNoOp ==
    (pc = "done" /\ DOMAIN request = {})
    => /\ status = 200
       /\ body = ""
       /\ built = NotBuilt
       /\ dbQueries = <<>>

IsFilterKey(key) ==
    /\ key \notin {breakdown, time_start, time_end}
    /\ ~HasPrefix(key, filter_field)
    /\ Resolves(key)

ExpectedPredicate(key, values) ==
    LET expr == resolveDictIfNecessary(resolveVirtualField(key)).val
    IN  IF Len(values) = 1 THEN expr \o " = '" \o values[1] \o "'"
        ELSE expr \o " IN (" \o Join(Quoted(values), ", ") \o ")"

\* C3: every request parameter that is a filter (not breakdown, time_start,
\* time_end or a filter_field key, and resolving as a field, the virtual
\* fields included) has its predicate in the WHERE clause: an equality with
\* the quoted value for one value, an IN list of exactly its quoted values
\* for more than one; there is one predicate per filter.
C3_FilterPredicates ==
    Built =>
        LET conds == built.lists.conditions
            filters == {k \in DOMAIN request : IsFilterKey(k)}
        IN  /\ Len(conds) = 1 + Cardinality(filters)
            /\ \A k \in filters :
                   \E i \in 2..Len(conds) :
                       conds[i] = ExpectedPredicate(k, request[k])

Parsable(v) == v \in {"2024-01-01T10:00", "2024-01-01T11:00", "2024-01-01T01:30"}

FirstFailure(req) ==
    IF breakdown \notin DOMAIN req THEN <<"No breakdown set">>
    ELSE IF time_start \notin DOMAIN req THEN <<"No start time given">>
    ELSE IF time_end \notin DOMAIN req THEN <<"No end time given">>
    ELSE IF ~Parsable(req[time_start][1])
    THEN <<"Unable to parse time",
           "Unable to parse \"" \o req[time_start][1] \o ":00+02:00\"">>
    ELSE IF ~Parsable(req[time_end][1])
    THEN <<"Unable to parse time",
           "Unable to parse \"" \o req[time_end][1] \o ":00+02:00\"">>
    ELSE <<>>

\* C4: for a non-empty request the checks run in the order breakdown present,
\* time_start present, time_end present, time strings parsable, and the
\* first one that fails is the one reported; when one fails no statement is
\* built, nothing is sent to the storage engine, and the response is a 500.
C4_ValidationOrder ==
    (pc # "idle" /\ DOMAIN request # {} /\ FirstFailure(request) # <<>>)
    => /\ pc = "done"
       /\ Len(err) >= 2 + Len(FirstFailure(request))
       /\ SubSeq(err, 3, 2 + Len(FirstFailure(request)))
              = FirstFailure(request)
       /\ built.query = ""
       /\ built.lists = NoLists
       /\ dbQueries = <<>>
       /\ dbCall = "none"
       /\ status = 500
       /\ body = ""

\* C4 witness: a request that fails two of the checks has been answered
C4_Witness ==
    /\ pc = "done"
    /\ DOMAIN request = {time_end}
    /\ request[time_end] = <<"yesterday">>
    /\ err = <<"Unable to process query", "Unable to generate SQL query",
               "No breakdown set">>
    /\ status = 500

Epoch(v) ==
    CASE v = "2024-01-01T10:00" -> 1704096000
      [] v = "2024-01-01T11:00" -> 1704099600
      [] v = "2024-01-01T01:30" -> 1704065400

\* C5: the statement of a request that passes validation selects the bucket
\* column first, then "<resolved expression> as <field name>" for each
\* breakdown field that resolves, in request order, then the unaliased
\* throughput aggregate, last and nowhere else; its WHERE clause has the
\* BETWEEN predicate on the two epoch seconds; GROUP BY is t followed by the
\* breakdown names in request order; the statement ends with ORDER BY t.
C5_StatementShape ==
    Built =>
        LET sel == built.lists.selectFieldList
            names == resolvedNames(request[breakdown])
        IN  /\ Len(sel) = Len(names) + 2
            /\ sel[1] = "timestamp as t"
            /\ sel[Len(sel)] = Aggregate
            /\ \A i \in 1..Len(names) :
                   /\ sel[i + 1] # Aggregate
                   /\ sel[i + 1]
                        = resolveDictIfNecessary(
                              resolveVirtualField(names[i])).val
                          \o " as " \o Str(names[i])
            /\ \E i \in 1..Len(built.lists.conditions) :
                   built.lists.conditions[i]
                     = "t BETWEEN toDateTime("
                       \o ToString(Epoch(request[time_start][1]))
                       \o ") AND toDateTime("
                       \o ToString(Epoch(request[time_end][1])) \o ")"
            /\ built.lists.groupBy = <<"t">> \o Strs(request[breakdown])
            /\ built.query
                 = "SELECT " \o Join(sel, ", ")
                   \o " FROM flowhouse.flows WHERE "
                   \o Join(built.lists.conditions, " AND ")
                   \o " GROUP BY " \o Join(built.lists.groupBy, ", ")
                   \o " ORDER BY t"

\* C5 witness: the statement for breakdown src_asn from 10:00 to 11:00
C5_Witness ==
    /\ pc = "waiting"
    /\ request = (breakdown :> <<src_asn>>)
                 @@ (time_start :> <<"2024-01-01T10:00">>)
                 @@ (time_end :> <<"2024-01-01T11:00">>)
    /\ dbQueries =
         <<"SELECT timestamp as t, src_asn as src_asn, "
           \o "sum(size * samplerate) * 8 / 10 FROM flowhouse.flows "
           \o "WHERE t BETWEEN toDateTime(1704096000) "
           \o "AND toDateTime(1704099600) GROUP BY t, src_asn ORDER BY t">>

\* C7: if the request is cancelled while it waits on the storage engine, the
\* database call is aborted and the handler returns: a cancelled request is
\* never one that stayed blocked until the database answered.
C7_CancelAbortsQuery == cancelled => dbCall # "answered"

\* C8: a request for which fieldsToQuery returns a statement has a non-empty
\* breakdown list, both times present, and a start that is not later than
\* its end; a request whose start is later than its end does not reach the
\* storage engine.
C8_RequestInvariant ==
    Built =>
        /\ breakdown \in DOMAIN request /\ Len(request[breakdown]) > 0
        /\ time_start \in DOMAIN request
        /\ time_end \in DOMAIN request
        /\ Epoch(request[time_start][1]) <= Epoch(request[time_end][1])

WellFormedPath(path) ==
    /\ Len(SplitSlash(path)) = 3
    /\ Len(SplitSep(SplitSlash(path)[3])) = 2

Bound(field) == \E i \in 1..Len(dictCfgs) : dictCfgs[i].Field = field

\* C6: for a well-formed path /<prefix>/<field>__<column> whose field has a
\* binding and whose backend lookup succeeds, the endpoint returns a JSON
\* array with no empty string, no value twice, in ascending order; it
\* answers 400 on a malformed path or an unbound field, 500 when the backend
\* lookup fails.
C6_DictValues ==
    dpc = "done" =>
        IF ~WellFormedPath(dPath) THEN dOut.status = 400
        ELSE IF ~Bound(SplitSep(SplitSlash(dPath)[3])[1])
        THEN dOut.status = 400
        ELSE IF dOut.backend.err # <<>> THEN dOut.status = 500
        ELSE /\ dOut.status = 200
             /\ dOut.body = jsonMarshal(dOut.res)
             /\ \A i \in 1..Len(dOut.res) : dOut.res[i] # <<>>
             /\ \A i, j \in 1..Len(dOut.res) :
                    i < j => /\ dOut.res[i] # dOut.res[j]
                             /\ ~Less(dOut.res[j], dOut.res[i])

FirstSep(cs) ==
    Min({i \in 1..(Len(cs) - 1) : cs[i] = "_" /\ cs[i + 1] = "_"})

\* C9: resolveDictIfNecessary splits the name on the first "__", the base
\* being the text before it and the subfield the text after it.  For a base
\* with a binding it returns the lookup on the binding's table with the
\* subfield as attribute and the binding's template filled with its keys (or
\* with the base when it has none); a name without "__" is returned
\* unchanged; for a base without a binding it returns an error.  (Names
\* whose base or subfield is empty are left out.)
C9_SplitOnFirstSeparator ==
    rpc = "done" =>
        IF ~ContainsSep(rName)
        THEN rOut = [val |-> Str(rName), err |-> <<>>]
        ELSE LET base == SubSeq(rName, 1, FirstSep(rName) - 1)
                 sub == Drop(rName, FirstSep(rName) + 1)
                 d == getDict(base).d
             IN  IF base = <<>> \/ sub = <<>> THEN TRUE
                 ELSE IF ~Bound(base) THEN rOut.err # <<>>
                 ELSE /\ rOut.err = <<>>
                      /\ rOut.val
                           = "dictGet('" \o d.Dict \o "', '" \o Str(sub)
                             \o "', "
                             \o Sprintf(d.Expr,
                                        IF d.Keys = <<>> THEN <<Str(base)>>
                                        ELSE d.Keys)
                             \o ")"

Breakdown(row) == SubSeq(row, 2, Len(row) - 1)

\* C10: the composite key of a row has one "label=value" component for each
\* column strictly between the first and the last, joined by ";" in column
\* order; so two rows with the same timestamp that differ in a breakdown
\* column value have distinct keys, and both are in the series.
C10_DistinctRowsDistinctKeys ==
    /\ \A i \in 1..Len(scanned) :
           Len(keyComponents(columns, scanned[i], 2)) = Len(columns) - 2
    /\ \A i, j \in 1..Len(scanned) :
           ( /\ i # j
             /\ scanned[i][1] = scanned[j][1]
             /\ Breakdown(scanned[i]) # Breakdown(scanned[j]) )
           => /\ compositeKey(columns, scanned[i])
                   # compositeKey(columns, scanned[j])
              /\ {compositeKey(columns, scanned[i]),
                  compositeKey(columns, scanned[j])}
                     \subseteq DOMAIN res[scanned[i][1].v]

KeyRow(row) ==
    \A i \in 2..(Len(row) - 1) :
        /\ row[i].type \in KeyTypes
        /\ row[i].type = "string" => \A k \in 1..Len(row[i].v) : row[i].v[k] # ";"

Texts(row) == [i \in 1..(Len(row) - 2) |-> cellText(row[i + 1])]

\* C10, amended: the composite key has one "label=value" component for each
\* column strictly between the first and the last whose value is an unsigned
\* integer, a string or an IP address, joined by ";" in column order, and
\* none for a value of another type.  Two rows with the same timestamp whose
\* breakdown values are all of those types and printed without ";", and
\* which differ in the printed text of a breakdown value, have distinct
\* keys; both keys are in the series, each with the value of the last row
\* scanned for it.
C10_KeyRowsDistinctKeys ==
    /\ \A i \in 1..Len(scanned) :
           LET row == scanned[i]
               key == compositeKey(columns, row)
               last == CHOOSE j \in i..Len(scanned) :
                          /\ scanned[j][1] = row[1]
                          /\ compositeKey(columns, scanned[j]) = key
                          /\ \A k \in (j + 1)..Len(scanned) :
                                 \/ scanned[k][1] # row[1]
                                 \/ compositeKey(columns, scanned[k]) # key
           IN  /\ Len(keyComponents(columns, row, 2))
                    = Cardinality({c \in 2..(Len(row) - 1) :
                                      row[c].type \in KeyTypes})
               /\ KeyRow(row) =>
                      key = Join([c \in 1..(Len(row) - 2) |->
                                     getReadableLabel(columns[c + 1]) \o "="
                                     \o Texts(row)[c]], ";")
               /\ key \in DOMAIN res[row[1].v]
               /\ res[row[1].v][key]
                    = scanned[last][Len(columns)].v \div 10
    /\ \A i, j \in 1..Len(scanned) :
           ( /\ scanned[i][1] = scanned[j][1]
             /\ KeyRow(scanned[i]) /\ KeyRow(scanned[j])
             /\ Texts(scanned[i]) # Texts(scanned[j]) )
           => compositeKey(columns, scanned[i])
                # compositeKey(columns, scanned[j])

\* C10 witness: the rows (100, 65001, 10.5) and (100, 65002, 20) have been
\* scanned, and the series holds 10 and 20 under two keys at 100
C10_Witness ==
    /\ ppc = "rows"
    /\ columns = <<t_column, src_asn, aggregate_column>>
    /\ Len(scanned) = 2
    /\ scanned[1][2] = Cell("uint32", 65001)
    /\ scanned[2][2] = Cell("uint32", 65002)
    /\ res = (100 :> (("Src.AS=65001" :> 10) @@ ("Src.AS=65002" :> 20)))

====
